---- MODULE Spec2Model ----
(***************************************************************************)
(* SCAR: emission calculator, scenario engine and the two request handlers *)
(* that use them (src/calculations, src/app.py).                           *)
(*                                                                         *)
(* Numbers.  The program computes in binary floating point.  The model     *)
(* computes in exact decimal fixed point: an emission amount is an integer *)
(* number of units, UnitsPerCent units to 0.01 kgCO2e.  With that          *)
(* resolution every product the scenario rules form from an amount that is *)
(* a whole number of cents is itself a whole number of units, so no        *)
(* scenario step truncates.  Float error is represented where it decides a *)
(* discrete outcome: the direction in which round() resolves a decimal     *)
(* tie, and the outcome of a comparison of a quotient that lies on its     *)
(* threshold.  The last bits of an amount (a few ulps) are not             *)
(* represented.                                                            *)
(*                                                                         *)
(* Dictionaries.  A Python dict is a sequence of <<key, value>> pairs in   *)
(* insertion order without repeated keys.  Dicts live in a heap and the    *)
(* program's variables hold references, so that aliasing is expressible.   *)
(***************************************************************************)
EXTENDS Integers, Sequences, FiniteSets, TLC

VARIABLES
    heap,               \* reference -> dict object
    baseline_emissions, \* reference held by the caller of the scenario functions
    original,           \* ghost: contents of the baseline dict when it was built
    scenario_modal,     \* reference to the last modal result, None before
    scenario_digital,   \* reference to the last digital result, None before
    scenario_utility,   \* reference to the last utility-aware result, None before
    utility,            \* the utility score of the last utility-aware call
    form_data,          \* the form of the last request: field -> string
    response,           \* how the last request ended: "none", "ok", "ValueError"
    rendered            \* what the last request handed to the template or the PDF

engineVars == <<heap, baseline_emissions, original, scenario_modal, scenario_digital,
                scenario_utility, utility>>

appVars == <<form_data, response, rendered>>

vars == <<engineVars, appVars>>

----------------------------------------------------------------------------
(* Bounds of the model *)

\* at most this many keys are present in a baseline drawn for the engine
MaxKeys == 3

\* at most this many fields are filled in a submitted form
MaxFields == 2

----------------------------------------------------------------------------
(* Fixed-point numbers *)

\* units per 0.01 kgCO2e
UnitsPerCent == 400

Cent == UnitsPerCent
Kg == 100 * UnitsPerCent

\* floor(v * num / den) for v >= 0, without forming v * num
Mul(v, num, den) == (v \div den) * num + ((v % den) * num) \div den

Min(a, b) == IF a <= b THEN a ELSE b

----------------------------------------------------------------------------
(* emission_factors.py *)

\* the keys of FACTORS in the order of the dict literal
FactorOrder ==
    << "flight_short", "flight_medium", "flight_long", "train_tgv", "train_ter",
       "car_diesel", "car_essence", "carpool", "bus", "metro",
       "electricity", "gas", "fioul", "heating_network",
       "laptops", "desktop", "screen", "server", "cloud", "video_conf",
       "email", "llm_usage", "ai_training",
       "meat_meals", "white_meat_meals", "veg_meals", "coffee",
       "hotel_night", "airbnb_night", "conference_day", "conference_meal" >>

ActivityKeys == {FactorOrder[i] : i \in DOMAIN FactorOrder}

\* FACTORS, in thousandths of a kgCO2e per unit of activity
FACTORS ==
    [k \in ActivityKeys |->
        CASE k = "flight_short" -> 255 [] k = "flight_medium" -> 145
          [] k = "flight_long" -> 133 [] k = "train_tgv" -> 3
          [] k = "train_ter" -> 7 [] k = "car_diesel" -> 250
          [] k = "car_essence" -> 230 [] k = "carpool" -> 83
          [] k = "bus" -> 100 [] k = "metro" -> 5
          [] k = "electricity" -> 79 [] k = "gas" -> 227
          [] k = "fioul" -> 300 [] k = "heating_network" -> 180
          [] k = "laptops" -> 300000 [] k = "desktop" -> 450000
          [] k = "screen" -> 100000 [] k = "server" -> 1600000
          [] k = "cloud" -> 120000 [] k = "video_conf" -> 55
          [] k = "email" -> 35 [] k = "llm_usage" -> 1
          [] k = "ai_training" -> 3000
          [] k = "meat_meals" -> 5000 [] k = "white_meat_meals" -> 2000
          [] k = "veg_meals" -> 1000 [] k = "coffee" -> 70
          [] k = "hotel_night" -> 6500 [] k = "airbnb_night" -> 3500
          [] k = "conference_day" -> 15000 [] k = "conference_meal" -> 4000]

----------------------------------------------------------------------------
(* Python dict operations *)

None == 0

EmptyDict == << >>

DictKeys(d) == {d[i][1] : i \in DOMAIN d}

\* k in d
Has(d, k) == k \in DictKeys(d)

IndexOf(d, k) == CHOOSE i \in DOMAIN d : d[i][1] = k

\* d[k]
Item(d, k) == d[IndexOf(d, k)][2]

\* d.get(k, default)
Get(d, k, default) == IF Has(d, k) THEN Item(d, k) ELSE default

\* d[k] = v : replaces in place, or appends a new key at the end
SetItem(d, k, v) ==
    IF Has(d, k) THEN [d EXCEPT ![IndexOf(d, k)] = <<k, v>>]
    ELSE Append(d, <<k, v>>)

RECURSIVE SumFrom(_, _)
SumFrom(d, i) == IF i > Len(d) THEN 0 ELSE d[i][2] + SumFrom(d, i + 1)

\* sum(d.values())
SumValues(d) == SumFrom(d, 1)

----------------------------------------------------------------------------
(* calculations/scenarios/rules.py *)

\* rates are in thousandths
PerMille == 1000

MAX_FLIGHT_SUBSTITUTION ==
    << <<"flight_short", 600>>, <<"flight_medium", 400>>, <<"flight_long", 150>> >>

FlightKeys == DictKeys(MAX_FLIGHT_SUBSTITUTION)

CarKeys == {"car_diesel", "car_essence"}

CAR_SUBSTITUTION_RATE == 300

MAX_DIGITAL_REDUCTION == 300

\* the global cap on total emission reductions; no function reads it
MAX_GLOBAL_REDUCTION == 200

DIGITAL_SOBRIETY_POSTS == {"cloud", "video_conf", "email", "llm_usage"}

DIGITAL_STRUCTURAL_POSTS == {"server", "ai_training", "laptops", "desktop", "screen"}

\* digital_reduction in thousandths, factor in tenths
UTILITY_SCENARIO_LEVELS ==
    [high |-> [min_utility |-> 8, digital_reduction |-> 100,
               mobility_reduction_factor |-> 5],
     medium |-> [min_utility |-> 5, digital_reduction |-> 250,
                 mobility_reduction_factor |-> 10],
     low |-> [min_utility |-> 0, digital_reduction |-> 400,
              mobility_reduction_factor |-> 13]]

\* share of the flight emissions removed that reappears as rail emissions
RailShare == 100

----------------------------------------------------------------------------
(* calculations/scenarios/utils.py *)

\* float(v): the same number as a float
Float(v) == v

RECURSIVE CopyFrom(_, _)
CopyFrom(d, i) ==
    IF i > Len(d) THEN EmptyDict
    ELSE <<(<<d[i][1], Float(d[i][2])>>)>> \o CopyFrom(d, i + 1)

\* variant: no copy is made, the caller's dict itself is handed back
copy_emissions_alias(h, emissions, fresh) == [heap |-> h, ref |-> emissions]

\* copy_emissions: builds a new dict object (at the unused reference fresh)
\* holding float(v) for every item of the dict at reference emissions
copy_emissions(h, emissions, fresh) ==
    [heap |-> [h EXCEPT ![fresh] = CopyFrom(h[emissions], 1)], ref |-> fresh]

----------------------------------------------------------------------------
(* calculations/scenarios/engine.py *)

\* the sequences that enumerate the set S once each
Orders(S) == {o \in [1..Cardinality(S) -> S] : \A x \in S : \E i \in DOMAIN o : o[i] = x}

\* The orders in which a loop over the Python set S, whose body does nothing
\* for a key absent from the dict d, is run: an iteration order of a set of
\* strings is whatever the hashes give.  Orders that differ only in where the
\* absent keys stand give the same run, so the absent keys are put last.
SetOrders(S, d) ==
    LET Absent(k) == k \in S /\ ~Has(d, k)
    IN  {o \o SelectSeq(FactorOrder, Absent) : o \in Orders(S \cap DictKeys(d))}

(* scenario_modal_substitution *)

\* variant: the rail amount is assigned, not accumulated
ModalFlightStep_assign(e, flight, max_rate) ==
    IF Has(e, flight) /\ Item(e, flight) > 0
    THEN LET reduced == Mul(Item(e, flight), max_rate, PerMille)
             e1 == SetItem(e, flight, Item(e, flight) - reduced)
         IN  SetItem(e1, "train_tgv", Mul(reduced, RailShare, PerMille))
    ELSE e

\* body of the flight loop for one (flight, max_rate) item
ModalFlightStep(e, flight, max_rate) ==
    IF Has(e, flight) /\ Item(e, flight) > 0
    THEN LET reduced == Mul(Item(e, flight), max_rate, PerMille)
             e1 == SetItem(e, flight, Item(e, flight) - reduced)
         IN  SetItem(e1, "train_tgv",
                     Get(e1, "train_tgv", 0) + Mul(reduced, RailShare, PerMille))
    ELSE e

RECURSIVE ModalFlightLoop(_, _)
ModalFlightLoop(e, i) ==
    IF i > Len(MAX_FLIGHT_SUBSTITUTION) THEN e
    ELSE ModalFlightLoop(
             ModalFlightStep(e, MAX_FLIGHT_SUBSTITUTION[i][1], MAX_FLIGHT_SUBSTITUTION[i][2]),
             i + 1)

\* variant: the car key is not reduced
ModalCarStep_keep(e, car) ==
    IF Has(e, car) /\ Item(e, car) > 0
    THEN LET reduced == Mul(Item(e, car), CAR_SUBSTITUTION_RATE, PerMille)
         IN  SetItem(e, "carpool", Get(e, "carpool", 0) + reduced)
    ELSE e

\* variant: the carpool amount is assigned, not accumulated
ModalCarStep_assign(e, car) ==
    IF Has(e, car) /\ Item(e, car) > 0
    THEN LET reduced == Mul(Item(e, car), CAR_SUBSTITUTION_RATE, PerMille)
             e1 == SetItem(e, car, Item(e, car) - reduced)
         IN  SetItem(e1, "carpool", reduced)
    ELSE e

\* body of the car loop for one car key
ModalCarStep(e, car) ==
    IF Has(e, car) /\ Item(e, car) > 0
    THEN LET reduced == Mul(Item(e, car), CAR_SUBSTITUTION_RATE, PerMille)
             e1 == SetItem(e, car, Item(e, car) - reduced)
         IN  SetItem(e1, "carpool", Get(e1, "carpool", 0) + reduced)
    ELSE e

RECURSIVE ModalCarLoop(_, _, _)
ModalCarLoop(e, order, i) ==
    IF i > Len(order) THEN e
    ELSE ModalCarLoop(ModalCarStep(e, order[i]), order, i + 1)

\* the function: h is the heap, baseline the reference passed in, fresh an
\* unused reference, cars the iteration order of the car set.  Returns the
\* heap after the call and the reference returned.
scenario_modal_substitution(h, baseline, fresh, cars) ==
    LET c == copy_emissions(h, baseline, fresh)
        e == ModalCarLoop(ModalFlightLoop(c.heap[c.ref], 1), cars, 1)
    IN  [heap |-> [c.heap EXCEPT ![c.ref] = e], ref |-> c.ref]

(* scenario_digital_sobriety *)

\* emissions[post] *= (1 - reduction) when present and positive
DigitalStep(e, post, reduction) ==
    IF Has(e, post) /\ Item(e, post) > 0
    THEN SetItem(e, post, Mul(Item(e, post), PerMille - reduction, PerMille))
    ELSE e

RECURSIVE DigitalLoop(_, _, _, _)
DigitalLoop(e, order, reduction, i) ==
    IF i > Len(order) THEN e
    ELSE DigitalLoop(DigitalStep(e, order[i], reduction), order, reduction, i + 1)

\* variant: the structural digital posts are reduced too
scenario_digital_sobriety_structural(h, baseline, fresh, posts) ==
    LET c == copy_emissions(h, baseline, fresh)
        Structural(k) == k \in DIGITAL_STRUCTURAL_POSTS
        e == DigitalLoop(c.heap[c.ref], posts \o SelectSeq(FactorOrder, Structural),
                         MAX_DIGITAL_REDUCTION, 1)
    IN  [heap |-> [c.heap EXCEPT ![c.ref] = e], ref |-> c.ref]

scenario_digital_sobriety(h, baseline, fresh, posts) ==
    LET c == copy_emissions(h, baseline, fresh)
        e == DigitalLoop(c.heap[c.ref], posts, MAX_DIGITAL_REDUCTION, 1)
    IN  [heap |-> [c.heap EXCEPT ![c.ref] = e], ref |-> c.ref]

(* scenario_utility_aware *)

\* mobility factors are in tenths
PerTen == 10

\* variant: the high tier starts above 8
UtilityLevel_strict(u) ==
    IF u > 8 THEN [digital_reduction |-> 100, mobility_factor |-> 5]
    ELSE IF u >= 5 THEN [digital_reduction |-> 250, mobility_factor |-> 10]
    ELSE [digital_reduction |-> 400, mobility_factor |-> 13]

\* variant: the branches of the high and the low tier are exchanged
UtilityLevel_inverted(u) ==
    IF u >= 8 THEN [digital_reduction |-> 400, mobility_factor |-> 13]
    ELSE IF u >= 5 THEN [digital_reduction |-> 250, mobility_factor |-> 10]
    ELSE [digital_reduction |-> 100, mobility_factor |-> 5]

\* the if / elif / else on the utility score: digital_reduction in
\* thousandths, mobility_factor in tenths
UtilityLevel(u) ==
    IF u >= 8 THEN [digital_reduction |-> 100, mobility_factor |-> 5]
    ELSE IF u >= 5 THEN [digital_reduction |-> 250, mobility_factor |-> 10]
    ELSE [digital_reduction |-> 400, mobility_factor |-> 13]

\* variant: no cap at max_rate
FlightRate_uncapped(max_rate, mobility_factor) == max_rate * mobility_factor

\* min(max_rate * mobility_factor, max_rate), in units of 1 / (PerMille * PerTen)
FlightRate(max_rate, mobility_factor) ==
    Min(max_rate * mobility_factor, max_rate * PerTen)

UtilityFlightStep(e, flight, max_rate, mobility_factor) ==
    IF Has(e, flight) /\ Item(e, flight) > 0
    THEN LET reduced == Mul(Item(e, flight), FlightRate(max_rate, mobility_factor),
                            PerMille * PerTen)
             e1 == SetItem(e, flight, Item(e, flight) - reduced)
         IN  SetItem(e1, "train_tgv",
                     Get(e1, "train_tgv", 0) + Mul(reduced, RailShare, PerMille))
    ELSE e

RECURSIVE UtilityFlightLoop(_, _, _)
UtilityFlightLoop(e, mobility_factor, i) ==
    IF i > Len(MAX_FLIGHT_SUBSTITUTION) THEN e
    ELSE UtilityFlightLoop(
             UtilityFlightStep(e, MAX_FLIGHT_SUBSTITUTION[i][1],
                               MAX_FLIGHT_SUBSTITUTION[i][2], mobility_factor),
             mobility_factor, i + 1)

\* variant: the operands of the subtraction are exchanged
UtilityCarStep_swapped(e, car, mobility_factor) ==
    IF Has(e, car) /\ Item(e, car) > 0
    THEN LET reduced == Mul(Item(e, car), CAR_SUBSTITUTION_RATE * mobility_factor,
                            PerMille * PerTen)
             e1 == SetItem(e, car, reduced - Item(e, car))
         IN  SetItem(e1, "carpool", Get(e1, "carpool", 0) + reduced)
    ELSE e

\* variant: the car rate is capped like the flight rate
UtilityCarStep_capped(e, car, mobility_factor) ==
    IF Has(e, car) /\ Item(e, car) > 0
    THEN LET reduced == Mul(Item(e, car),
                            Min(CAR_SUBSTITUTION_RATE * mobility_factor,
                                CAR_SUBSTITUTION_RATE * PerTen),
                            PerMille * PerTen)
             e1 == SetItem(e, car, Item(e, car) - reduced)
         IN  SetItem(e1, "carpool", Get(e1, "carpool", 0) + reduced)
    ELSE e

UtilityCarStep(e, car, mobility_factor) ==
    IF Has(e, car) /\ Item(e, car) > 0
    THEN LET reduced == Mul(Item(e, car), CAR_SUBSTITUTION_RATE * mobility_factor,
                            PerMille * PerTen)
             e1 == SetItem(e, car, Item(e, car) - reduced)
         IN  SetItem(e1, "carpool", Get(e1, "carpool", 0) + reduced)
    ELSE e

RECURSIVE UtilityCarLoop(_, _, _, _)
UtilityCarLoop(e, order, mobility_factor, i) ==
    IF i > Len(order) THEN e
    ELSE UtilityCarLoop(UtilityCarStep(e, order[i], mobility_factor),
                        order, mobility_factor, i + 1)

scenario_utility_aware(h, baseline, u, fresh, posts, cars) ==
    LET c == copy_emissions(h, baseline, fresh)
        level == UtilityLevel(u)
        e1 == DigitalLoop(c.heap[c.ref], posts, level.digital_reduction, 1)
        e2 == UtilityFlightLoop(e1, level.mobility_factor, 1)
        e3 == UtilityCarLoop(e2, cars, level.mobility_factor, 1)
    IN  [heap |-> [c.heap EXCEPT ![c.ref] = e3], ref |-> c.ref]

----------------------------------------------------------------------------
(* The scenario engine called on a baseline: any calls, in any order *)

\* references: the baseline dict and the dict each call site keeps
BaselineRef == 1
ModalRef == 2
DigitalRef == 3
UtilityRef == 4
Refs == {BaselineRef, ModalRef, DigitalRef, UtilityRef}

\* keys a drawn baseline may hold: every flight and car key, both destination
\* keys, two adjustable digital keys, a structural digital key
SampleKeys == {"flight_short", "flight_medium", "flight_long", "train_tgv",
               "car_diesel", "car_essence", "carpool", "cloud", "email", "server"}

\* the positive amount a drawn baseline holds for a key, when not 0
SampleAmount(k) ==
    CASE k = "flight_short" -> 255 * Kg
      [] k = "flight_medium" -> 14 * Kg + 50 * Cent
      [] k = "flight_long" -> 1000 * Kg
      [] k = "train_tgv" -> 3 * Cent
      [] k = "car_diesel" -> 25 * Kg
      [] k = "car_essence" -> Cent
      [] k = "carpool" -> 8 * Kg + 30 * Cent
      [] k = "cloud" -> 120 * Kg
      [] k = "email" -> 35 * Cent
      [] k = "server" -> 1600 * Kg

\* the dict with keys S (in FACTORS order); f tells which hold their sample amount
DictOf(S, f) ==
    LET InS(k) == k \in S
        ks == SelectSeq(FactorOrder, InS)
    IN  [i \in DOMAIN ks |-> <<ks[i], IF f[ks[i]] THEN SampleAmount(ks[i]) ELSE 0>>]

\* the worked examples of the documentation
ExampleBaselines ==
    { << <<"flight_long", 1000 * Kg>>, <<"train_tgv", 0>> >>,
      << <<"cloud", 100 * Kg>>, <<"server", 200 * Kg>> >> }

\* baselines with at most MaxKeys keys, each 0 or its sample amount
Baselines ==
    UNION {{DictOf(S, f) : f \in [S -> BOOLEAN]} :
              S \in {T \in SUBSET SampleKeys : Cardinality(T) <= MaxKeys}}
    \cup ExampleBaselines

\* utility scores passed to scenario_utility_aware
UtilityScores == {-1, 4, 5, 7, 8, 11}

Scenarios == {"modal", "digital", "utility"}

\* nothing rendered
NoPage ==
    [page |-> "none", emissions |-> EmptyDict,
     totals |-> [baseline |-> 0, modal |-> 0, digital |-> 0, utility |-> 0],
     reductions |-> [k \in Scenarios |-> 0],
     utility |-> 0, dominant_post |-> "", dominant_share |-> 0,
     baseline_profile |-> ""]

\* the heap that holds the baseline dict b and no other dict yet
FreshHeap(b) == [r \in Refs |-> IF r = BaselineRef THEN b ELSE EmptyDict]

Init ==
    /\ \E b \in Baselines :
          /\ heap = FreshHeap(b)
          /\ original = b
    /\ baseline_emissions = BaselineRef
    /\ scenario_modal = None
    /\ scenario_digital = None
    /\ scenario_utility = None
    /\ utility = None
    /\ form_data = << >>
    /\ response = "none"
    /\ rendered = NoPage

\* scenario_modal = scenario_modal_substitution(baseline_emissions)
CallModal ==
    \E cars \in SetOrders(CarKeys, heap[baseline_emissions]) :
        LET r == scenario_modal_substitution(heap, baseline_emissions, ModalRef, cars)
        IN  /\ heap' = r.heap
            /\ scenario_modal' = r.ref
            /\ UNCHANGED <<baseline_emissions, original, scenario_digital,
                           scenario_utility, utility, appVars>>

\* scenario_digital = scenario_digital_sobriety(baseline_emissions)
CallDigital ==
    \E posts \in SetOrders(DIGITAL_SOBRIETY_POSTS, heap[baseline_emissions]) :
        LET r == scenario_digital_sobriety(heap, baseline_emissions, DigitalRef, posts)
        IN  /\ heap' = r.heap
            /\ scenario_digital' = r.ref
            /\ UNCHANGED <<baseline_emissions, original, scenario_modal,
                           scenario_utility, utility, appVars>>

\* scenario_utility = scenario_utility_aware(baseline_emissions, u)
CallUtility ==
    \E u \in UtilityScores,
       posts \in SetOrders(DIGITAL_SOBRIETY_POSTS, heap[baseline_emissions]),
       cars \in SetOrders(CarKeys, heap[baseline_emissions]) :
        LET r == scenario_utility_aware(heap, baseline_emissions, u, UtilityRef,
                                        posts, cars)
        IN  /\ heap' = r.heap
            /\ scenario_utility' = r.ref
            /\ utility' = u
            /\ UNCHANGED <<baseline_emissions, original, scenario_modal,
                           scenario_digital, appVars>>

Next == CallModal \/ CallDigital \/ CallUtility

Spec == Init /\ [][Next]_vars

----------------------------------------------------------------------------
(* Strings and their conversion to numbers *)

\* A string is a sequence of one-character strings.
Digits == {"0", "1", "2", "3", "4", "5", "6", "7", "8", "9"}

DigitValue(c) ==
    CASE c = "0" -> 0 [] c = "1" -> 1 [] c = "2" -> 2 [] c = "3" -> 3 [] c = "4" -> 4
      [] c = "5" -> 5 [] c = "6" -> 6 [] c = "7" -> 7 [] c = "8" -> 8 [] c = "9" -> 9

RECURSIVE Strip(_)
\* str.strip() for blanks
Strip(s) ==
    IF s = << >> THEN s
    ELSE IF Head(s) = " " THEN Strip(Tail(s))
    ELSE IF s[Len(s)] = " " THEN Strip(SubSeq(s, 1, Len(s) - 1))
    ELSE s

RECURSIVE DigitsValue(_, _)
\* the number written by the digits of s, the other characters skipped
DigitsValue(s, acc) ==
    IF s = << >> THEN acc
    ELSE IF Head(s) \in Digits THEN DigitsValue(Tail(s), 10 * acc + DigitValue(Head(s)))
    ELSE DigitsValue(Tail(s), acc)

Count(s, c) == Cardinality({i \in DOMAIN s : s[i] = c})

ValueError == [ok |-> FALSE, mant |-> 0, frac |-> 0]

\* A number is mant / 10^frac.
Number(mant, frac) == [ok |-> TRUE, mant |-> mant, frac |-> frac]

\* the part of a stripped string after an optional sign
Unsigned(t) == IF t # << >> /\ Head(t) \in {"-", "+"} THEN Tail(t) ELSE t

Signed(t, n) == IF t # << >> /\ Head(t) = "-" THEN -n ELSE n

\* float(s) for a string: blanks stripped, an optional sign, digits with at
\* most one point and at least one digit; anything else raises ValueError.
\* (Exponents, "inf", "nan" and digit separators are not represented: no
\* string of the model uses them.)
ParseFloat(s) ==
    LET t == Strip(s)
        b == Unsigned(t)
        point == IF Count(b, ".") = 1 THEN CHOOSE i \in DOMAIN b : b[i] = "." ELSE Len(b)
    IN  IF /\ \A i \in DOMAIN b : b[i] \in Digits \cup {"."}
           /\ Count(b, ".") <= 1
           /\ \E i \in DOMAIN b : b[i] \in Digits
        THEN Number(Signed(t, DigitsValue(b, 0)), Len(b) - point)
        ELSE ValueError

\* int(s) for a string: blanks stripped, an optional sign, digits only
ParseInt(s) ==
    LET t == Strip(s)
        b == Unsigned(t)
    IN  IF b # << >> /\ \A i \in DOMAIN b : b[i] \in Digits
        THEN Number(Signed(t, DigitsValue(b, 0)), 0)
        ELSE ValueError

\* form_data.get(key, 0): the string of the field, or the int 0
FormGet(form, key) ==
    IF key \in DOMAIN form THEN [type |-> "str", s |-> form[key], n |-> 0]
    ELSE [type |-> "int", s |-> << >>, n |-> 0]

\* float(raw_value)
PyFloat(raw) == IF raw.type = "int" THEN Number(raw.n, 0) ELSE ParseFloat(raw.s)

\* int(raw_value)
PyInt(raw) == IF raw.type = "int" THEN Number(raw.n, 0) ELSE ParseInt(raw.s)

----------------------------------------------------------------------------
(* Rounding *)

RECURSIVE Pow10(_)
Pow10(n) == IF n = 0 THEN 1 ELSE 10 * Pow10(n - 1)

\* x lies exactly half way between two multiples of q
IsTie(x, q) == 2 * (x % q) = q

\* round(x, ndigits) for x >= 0 in units and a result step of q units.  A
\* float that is a decimal tie on paper lies just above or just below it, so
\* the direction of a tie is given by up.
Round(x, q, up) ==
    LET lo == (x \div q) * q
    IN  IF 2 * (x % q) < q THEN lo
        ELSE IF 2 * (x % q) > q THEN lo + q
        ELSE IF up THEN lo + q ELSE lo

----------------------------------------------------------------------------
(* calculations/emissions.py *)

\* units per thousandth of a kgCO2e
UnitsPerMilli == UnitsPerCent \div 10

\* activity_value * factor in units, for the value mant / 10^frac
EmissionValue(mant, frac, factor) == Mul(mant * factor, UnitsPerMilli, Pow10(frac))

\* float(raw_value) with the except branch and the clamp of negative values
ActivityValue(form, key) ==
    LET parsed == PyFloat(FormGet(form, key))
    IN  IF ~parsed.ok THEN Number(0, 0)
        ELSE IF parsed.mant < 0 THEN Number(0, 0)
        ELSE parsed

\* the keys whose emission value is a decimal tie at two decimals
TieKeys(form) ==
    {k \in ActivityKeys :
        LET a == ActivityValue(form, k)
        IN  IsTie(EmissionValue(a.mant, a.frac, FACTORS[k]), Cent)}

\* body of the loop over FACTORS.items() for one key; acc holds emissions
\* and total, up tells the direction of a tie
CalcStep(acc, form, key, up) ==
    LET a == ActivityValue(form, key)
        emission_value == EmissionValue(a.mant, a.frac, FACTORS[key])
    IN  IF emission_value > 0
        THEN LET rounded == Round(emission_value, Cent, up)
             IN  [emissions |-> SetItem(acc.emissions, key, rounded),
                  total |-> acc.total + rounded]
        ELSE acc

RECURSIVE CalcLoop(_, _, _, _)
CalcLoop(acc, form, ups, i) ==
    IF i > Len(FactorOrder) THEN acc
    ELSE CalcLoop(CalcStep(acc, form, FactorOrder[i], FactorOrder[i] \in ups),
                  form, ups, i + 1)

\* calculate_emissions(form_data): the dict of emissions and the total; ups
\* are the keys whose tie rounds up
calculate_emissions(form, ups) ==
    CalcLoop([emissions |-> EmptyDict, total |-> 0], form, ups, 1)

----------------------------------------------------------------------------
(* app.py: what the two handlers compute *)

RECURSIVE DivDigits(_, _, _)
\* quotient and remainder of a * 10^k by d, for a >= 0 and d > 0
DivDigits(a, d, k) ==
    IF k = 0 THEN [q |-> a \div d, r |-> a % d]
    ELSE LET p == DivDigits(a, d, k - 1)
         IN  [q |-> 10 * p.q + (10 * p.r) \div d, r |-> (10 * p.r) % d]

\* a * 10^k / d is a decimal tie
RatioTie(a, d, k) == 2 * DivDigits(a, d, k).r = d

\* round(a / d * 100, k - 2) as a whole number of 10^-(k-2) percent, for
\* a >= 0: the direction of a tie is given by up
RoundRatio(a, d, k, up) ==
    LET p == DivDigits(a, d, k)
    IN  IF 2 * p.r < d THEN p.q
        ELSE IF 2 * p.r > d THEN p.q + 1
        ELSE IF up THEN p.q + 1 ELSE p.q

\* amounts that are whole cents, in cents
Cents(x) == x \div UnitsPerCent

\* utility = int(form_data.get("mission_utility", 0))
ParseUtility(form) == PyInt(FormGet(form, "mission_utility"))

\* variant: the last item whose value is the largest
MaxItem_last(d) ==
    d[CHOOSE i \in DOMAIN d :
          /\ \A j \in DOMAIN d : d[j][2] <= d[i][2]
          /\ \A j \in (i + 1)..Len(d) : d[j][2] < d[i][2]]

\* max(baseline_emissions.items(), key=lambda x: x[1]): the first item, in
\* the order of the dict, whose value is the largest
MaxItem(d) ==
    d[CHOOSE i \in DOMAIN d :
          /\ \A j \in DOMAIN d : d[j][2] <= d[i][2]
          /\ \A j \in 1..(i - 1) : d[j][2] < d[i][2]]

\* dominant_post.replace("_", " ")
Humanize(k) ==
    CASE k = "flight_short" -> "flight short"
      [] k = "flight_medium" -> "flight medium"
      [] k = "flight_long" -> "flight long"
      [] k = "train_tgv" -> "train tgv"
      [] k = "train_ter" -> "train ter"
      [] k = "car_diesel" -> "car diesel"
      [] k = "car_essence" -> "car essence"
      [] k = "heating_network" -> "heating network"
      [] k = "video_conf" -> "video conf"
      [] k = "llm_usage" -> "llm usage"
      [] k = "ai_training" -> "ai training"
      [] k = "meat_meals" -> "meat meals"
      [] k = "white_meat_meals" -> "white meat meals"
      [] k = "veg_meals" -> "veg meals"
      [] k = "hotel_night" -> "hotel night"
      [] k = "airbnb_night" -> "airbnb night"
      [] k = "conference_day" -> "conference day"
      [] k = "conference_meal" -> "conference meal"
      [] OTHER -> k

\* the dominant post and its share in tenths of a percent; both handlers
Dominant(emissions, baseline_total, up) ==
    IF emissions # EmptyDict /\ baseline_total > 0
    THEN [post |-> MaxItem(emissions)[1],
          share |-> RoundRatio(Cents(MaxItem(emissions)[2]), Cents(baseline_total), 3, up)]
    ELSE [post |-> "", share |-> 0]

DominantTie(emissions, baseline_total) ==
    /\ emissions # EmptyDict /\ baseline_total > 0
    /\ RatioTie(Cents(MaxItem(emissions)[2]), Cents(baseline_total), 3)

mobility_posts == {"flight_short", "flight_medium", "flight_long",
                   "car_diesel", "car_essence", "train_tgv", "train_ter"}

digital_posts == {"server", "cloud", "desktop", "laptops",
                  "screen", "llm_usage", "ai_training"}

RECURSIVE SumIn(_, _, _)
\* sum(v for k, v in d.items() if k in S)
SumIn(d, S, i) ==
    IF i > Len(d) THEN 0
    ELSE (IF d[i][1] \in S THEN d[i][2] ELSE 0) + SumIn(d, S, i + 1)

\* every value of d is a float without representation error: a multiple of
\* 0.25, so that the sums and the divisions of the handler are exact too
FloatExact(d) == \A i \in DOMAIN d : Cents(d[i][2]) % 25 = 0

\* the comparisons of the classification: the sum compared and the threshold
\* in tenths
ProfileTests == {<<"digital", 6>>, <<"mobility", 6>>, <<"digital", 3>>, <<"mobility", 3>>}

\* mobility_sum and digital_sum, in cents
ProfileSum(emissions, name) ==
    Cents(SumIn(emissions, IF name = "digital" THEN digital_posts ELSE mobility_posts, 1))

\* the comparisons whose ratio is the threshold on paper while the floats
\* divided carry a representation error: the quotient then lies just above
\* or just below the threshold
ProfileTies(emissions, baseline_total) ==
    IF FloatExact(emissions) THEN {}
    ELSE {c \in ProfileTests :
             10 * ProfileSum(emissions, c[1]) = c[2] * Cents(baseline_total)}

\* x / baseline_total > c[2] / 10 as the floats compare; above holds the
\* comparisons of ProfileTies whose quotient lies above the threshold
RatioAbove(emissions, baseline_total, c, above) ==
    \/ 10 * ProfileSum(emissions, c[1]) > c[2] * Cents(baseline_total)
    \/ c \in above

\* variant: the floor applies to positive totals only
Profile_positive_floor(emissions, baseline_total, above) ==
    IF 0 < Cents(baseline_total) /\ Cents(baseline_total) < 100 * 100 THEN "low"
    ELSE IF RatioAbove(emissions, baseline_total, <<"digital", 6>>, above) THEN "digital"
    ELSE IF RatioAbove(emissions, baseline_total, <<"mobility", 6>>, above) THEN "mobility"
    ELSE IF /\ RatioAbove(emissions, baseline_total, <<"digital", 3>>, above)
            /\ RatioAbove(emissions, baseline_total, <<"mobility", 3>>, above) THEN "mixed"
    ELSE "other"

\* the profile of the results page
Profile(emissions, baseline_total, above) ==
    IF Cents(baseline_total) < 100 * 100 THEN "low"
    ELSE IF RatioAbove(emissions, baseline_total, <<"digital", 6>>, above) THEN "digital"
    ELSE IF RatioAbove(emissions, baseline_total, <<"mobility", 6>>, above) THEN "mobility"
    ELSE IF /\ RatioAbove(emissions, baseline_total, <<"digital", 3>>, above)
            /\ RatioAbove(emissions, baseline_total, <<"mobility", 3>>, above) THEN "mixed"
    ELSE "other"

\* the profile of the PDF
PdfProfile(dominant_post) ==
    IF dominant_post \in {"server", "cloud", "desktop", "laptops"} THEN "digital"
    ELSE "other"

\* total(e) = round(sum(e.values()), 2)
Total(e, up) == Round(SumValues(e), Cent, up)

\* round((baseline_total - v) / baseline_total * 100, 2) if baseline_total > 0
\* else 0, in hundredths of a percent
Reduction(baseline_total, v, up) ==
    IF baseline_total > 0
    THEN IF v <= baseline_total
         THEN RoundRatio(Cents(baseline_total - v), Cents(baseline_total), 4, up)
         ELSE -RoundRatio(Cents(v - baseline_total), Cents(baseline_total), 4, up)
    ELSE 0

ReductionTie(baseline_total, v) ==
    /\ baseline_total > 0
    /\ RatioTie(Cents(IF v <= baseline_total THEN baseline_total - v
                      ELSE v - baseline_total),
                Cents(baseline_total), 4)

\* the totals dict: h is the heap after the three calls, ups the scenarios
\* whose total, a tie, rounds up
Totals(h, baseline_total, m, d, w, ups) ==
    [baseline |-> baseline_total,
     modal |-> Total(h[m], "modal" \in ups),
     digital |-> Total(h[d], "digital" \in ups),
     utility |-> Total(h[w], "utility" \in ups)]

TotalTies(h, m, d, w) ==
    {x \in Scenarios :
        IsTie(SumValues(h[CASE x = "modal" -> m [] x = "digital" -> d [] x = "utility" -> w]),
              Cent)}

\* the reductions dict
Reductions(totals, ups) ==
    [k \in Scenarios |-> Reduction(totals.baseline, totals[k], k \in ups)]

ReductionTies(totals) == {k \in Scenarios : ReductionTie(totals.baseline, totals[k])}

----------------------------------------------------------------------------
(* app.py: the requests *)

\* fields a submitted form may hold: activity keys, the utility field and a
\* field that is no activity key
FormFields == {"flight_short", "car_diesel", "train_tgv", "cloud", "llm_usage",
               "ai_training", "mission_utility", "project_name"}

\* strings typed into a quantity field
QuantityStrings ==
    { << >>, <<"a", "b", "c">>, <<"-", "5">>, <<"0">>, <<"1">>,
      <<"2", ".", "5">>, <<"4", "0", "0">> }

\* strings sent as mission_utility
UtilityStrings ==
    { << >>, <<"a", "b", "c">>, <<"7", ".", "5">>, <<"-", "1">>, <<"4">>,
      <<"5">>, <<"8">> }

FieldStrings(field) ==
    IF field = "mission_utility" THEN UtilityStrings ELSE QuantityStrings

\* forms of the documented cases and of the thresholds of the profile: a
\* total below 100, a dominant digital or mobility post, both ratios above
\* 0.3, a ratio of exactly 0.6 or 0.3 with and without float representation
\* error, equal largest values
ExampleForms ==
    { [k \in {"cloud"} |-> <<"1">>],
      [k \in {"car_diesel"} |-> <<"4", "0", "0">>],
      [k \in {"ai_training", "veg_meals"} |->
          IF k = "ai_training" THEN <<"2", "0">> ELSE <<"4", "0">>],
      [k \in {"ai_training", "veg_meals"} |->
          IF k = "ai_training" THEN <<"2", "0", ".", "0", "2">>
          ELSE <<"4", "0", ".", "0", "4">>],
      [k \in {"car_diesel", "veg_meals"} |->
          IF k = "car_diesel" THEN <<"2", "4", "0">> ELSE <<"4", "0">>],
      [k \in {"ai_training", "car_diesel", "veg_meals"} |->
          CASE k = "ai_training" -> <<"1", "2">>
            [] k = "car_diesel" -> <<"1", "6", "0">>
            [] k = "veg_meals" -> <<"2", "4">>],
      [k \in {"ai_training", "car_diesel", "veg_meals"} |->
          CASE k = "ai_training" -> <<"1", "0">>
            [] k = "car_diesel" -> <<"1", "2", "0">>
            [] k = "veg_meals" -> <<"4", "0">>],
      [k \in {"ai_training", "car_diesel", "veg_meals"} |->
          CASE k = "ai_training" -> <<"1", "0", ".", "0", "1">>
            [] k = "car_diesel" -> <<"1", "2", "0", ".", "1", "2">>
            [] k = "veg_meals" -> <<"4", "0", ".", "0", "4">>],
      [k \in {"meat_meals", "veg_meals", "conference_meal"} |->
          CASE k = "meat_meals" -> <<"8">>
            [] k = "veg_meals" -> <<"4", "0">>
            [] k = "conference_meal" -> <<"1", "0">>] }

\* forms with at most MaxFields fields, and the examples
Forms ==
    UNION {{f \in [S -> QuantityStrings \cup UtilityStrings] :
               \A k \in S : f[k] \in FieldStrings(k)} :
              S \in {T \in SUBSET FormFields : Cardinality(T) <= MaxFields}}
    \cup ExampleForms

InitApp ==
    /\ heap = FreshHeap(EmptyDict)
    /\ original = EmptyDict
    /\ baseline_emissions = None
    /\ scenario_modal = None
    /\ scenario_digital = None
    /\ scenario_utility = None
    /\ utility = None
    /\ form_data \in Forms
    /\ response = "none"
    /\ rendered = NoPage

\* the handler stops at int(...): the exception leaves the handler
Raised(form, emissions) ==
    /\ UNCHANGED form_data
    /\ heap' = FreshHeap(emissions)
    /\ original' = emissions
    /\ baseline_emissions' = BaselineRef
    /\ scenario_modal' = None
    /\ scenario_digital' = None
    /\ scenario_utility' = None
    /\ utility' = None
    /\ response' = "ValueError"
    /\ rendered' = NoPage

\* the handler reaches its return
Returned(form, emissions, h, m, d, w, u, page) ==
    /\ UNCHANGED form_data
    /\ heap' = h
    /\ original' = emissions
    /\ baseline_emissions' = BaselineRef
    /\ scenario_modal' = m
    /\ scenario_digital' = d
    /\ scenario_utility' = w
    /\ utility' = u
    /\ response' = "ok"
    /\ rendered' = page

\* what every request starts with: calculate_emissions, the rounded total,
\* int(...) of the utility field.  key_ups are the keys whose tie rounds up.
Start(form, key_ups) ==
    LET calc == calculate_emissions(form, key_ups)
    IN  [emissions |-> calc.emissions,
         baseline_total |-> Round(calc.total, Cent, FALSE),
         utility |-> ParseUtility(form)]

\* the three scenario calls, in the order of both handlers
RunScenarios(h0, u, posts, cars) ==
    LET m == scenario_modal_substitution(h0, BaselineRef, ModalRef, cars)
        d == scenario_digital_sobriety(m.heap, BaselineRef, DigitalRef, posts)
        w == scenario_utility_aware(d.heap, BaselineRef, u, UtilityRef, posts, cars)
    IN  [heap |-> w.heap, modal |-> m.ref, digital |-> d.ref, utility |-> w.ref]

\* the values bound below by \E x \in {e} are local variables: computed once

\* POST /results with the submitted form; a request is handled once
results ==
    /\ response = "none"
    /\ \E form \in {form_data} :
       \E key_ups \in SUBSET TieKeys(form) :
       \E s \in {Start(form, key_ups)} :
          IF ~s.utility.ok THEN Raised(form, s.emissions)
          ELSE
          \E share_up \in IF DominantTie(s.emissions, s.baseline_total)
                          THEN BOOLEAN ELSE {FALSE} :
          \E dominant \in {Dominant(s.emissions, s.baseline_total, share_up)} :
          \E above \in SUBSET ProfileTies(s.emissions, s.baseline_total) :
          \E baseline_profile \in {Profile(s.emissions, s.baseline_total, above)} :
          \E posts \in SetOrders(DIGITAL_SOBRIETY_POSTS, s.emissions) :
          \E cars \in SetOrders(CarKeys, s.emissions) :
          \E r \in {RunScenarios(FreshHeap(s.emissions), s.utility.mant, posts, cars)} :
          \E total_ups \in SUBSET TotalTies(r.heap, r.modal, r.digital, r.utility) :
          \E totals \in {Totals(r.heap, s.baseline_total, r.modal, r.digital, r.utility,
                                total_ups)} :
          \E reduction_ups \in SUBSET ReductionTies(totals) :
              Returned(form, s.emissions, r.heap, r.modal, r.digital, r.utility,
                       s.utility.mant,
                       [page |-> "results.html",
                        emissions |-> r.heap[BaselineRef],
                        totals |-> totals,
                        reductions |-> Reductions(totals, reduction_ups),
                        utility |-> s.utility.mant,
                        dominant_post |-> Humanize(dominant.post),
                        dominant_share |-> dominant.share,
                        baseline_profile |-> baseline_profile])

\* POST /export-pdf with the submitted form; a request is handled once
export_pdf ==
    /\ response = "none"
    /\ \E form \in {form_data} :
       \E key_ups \in SUBSET TieKeys(form) :
       \E s \in {Start(form, key_ups)} :
          IF ~s.utility.ok THEN Raised(form, s.emissions)
          ELSE
          \E posts \in SetOrders(DIGITAL_SOBRIETY_POSTS, s.emissions) :
          \E cars \in SetOrders(CarKeys, s.emissions) :
          \E r \in {RunScenarios(FreshHeap(s.emissions), s.utility.mant, posts, cars)} :
          \E total_ups \in SUBSET TotalTies(r.heap, r.modal, r.digital, r.utility) :
          \E totals \in {Totals(r.heap, s.baseline_total, r.modal, r.digital, r.utility,
                                total_ups)} :
          \E reduction_ups \in SUBSET ReductionTies(totals) :
          \E share_up \in IF DominantTie(r.heap[BaselineRef], s.baseline_total)
                          THEN BOOLEAN ELSE {FALSE} :
          \E dominant \in {Dominant(r.heap[BaselineRef], s.baseline_total, share_up)} :
              Returned(form, s.emissions, r.heap, r.modal, r.digital, r.utility,
                       s.utility.mant,
                       [page |-> "SCAR_report.pdf",
                        emissions |-> r.heap[BaselineRef],
                        totals |-> totals,
                        reductions |-> Reductions(totals, reduction_ups),
                        utility |-> s.utility.mant,
                        dominant_post |-> Humanize(dominant.post),
                        dominant_share |-> dominant.share,
                        baseline_profile |-> PdfProfile(dominant.post)])

NextApp == results \/ export_pdf

SpecApp == InitApp /\ [][NextApp]_vars

----------------------------------------------------------------------------
(* Helpers of the properties *)

\* the dict a result variable refers to
Result(ref) == heap[ref]

\* the amount of key k in dict d, 0 when the key is absent
Amount(d, k) == Get(d, k, 0)

\* v * num / den is a whole number of units
Exact(v, num, den) == ((v % den) * num) % den = 0

\* the fraction num / den of the amount of key k in d, when that amount is positive
Part(d, k, num, den) ==
    IF Amount(d, k) > 0 THEN Mul(Amount(d, k), num, den) ELSE 0

AnyPositive(d, S) == \E k \in S : Amount(d, k) > 0

----------------------------------------------------------------------------
(* C1: a baseline whose values are all >= 0 gives, in each of the three     *)
(* scenario results, values that are all >= 0: source keys after the        *)
(* subtraction and the destination keys train_tgv and carpool after the     *)
(* accumulation.                                                            *)

AllNonNegative(d) == \A i \in DOMAIN d : d[i][2] >= 0

C1_ScenarioValuesNonNegative ==
    AllNonNegative(original) =>
        \A ref \in {scenario_modal, scenario_digital, scenario_utility} \ {None} :
            AllNonNegative(Result(ref))

\* the three results exist, the utility-aware one in the low tier, with both
\* car keys positive and carpool accumulated
C1_Witness ==
    /\ scenario_modal # None /\ scenario_digital # None /\ scenario_utility # None
    /\ utility < 5
    /\ Amount(original, "car_diesel") > 0
    /\ Amount(original, "car_essence") > 0
    /\ Amount(Result(scenario_utility), "carpool") > Amount(original, "carpool")
    /\ Amount(Result(scenario_utility), "car_essence") > 0

----------------------------------------------------------------------------
(* C2: no scenario function changes the dict it is given.  After any calls  *)
(* the baseline dict has the keys and values it was built with (train_tgv   *)
(* and carpool are not created in it), no result is the baseline object,    *)
(* and each result is what the function gives for the original baseline.    *)

C2_BaselineNotMutated ==
    /\ heap[baseline_emissions] = original
    /\ baseline_emissions \notin {scenario_modal, scenario_digital, scenario_utility}
    /\ scenario_modal # None =>
          \E cars \in Orders(CarKeys) :
              Result(scenario_modal) =
                  scenario_modal_substitution(FreshHeap(original), BaselineRef,
                                              ModalRef, cars).heap[ModalRef]
    /\ scenario_digital # None =>
          \E posts \in SetOrders(DIGITAL_SOBRIETY_POSTS, original) :
              Result(scenario_digital) =
                  scenario_digital_sobriety(FreshHeap(original), BaselineRef,
                                            DigitalRef, posts).heap[DigitalRef]

\* all three functions were called on a baseline with a positive flight and a
\* positive car and neither destination key
C2_Witness ==
    /\ scenario_modal # None /\ scenario_digital # None /\ scenario_utility # None
    /\ AnyPositive(original, FlightKeys) /\ AnyPositive(original, CarKeys)
    /\ ~Has(original, "train_tgv") /\ ~Has(original, "carpool")
    /\ Has(Result(scenario_modal), "train_tgv")
    /\ Has(Result(scenario_utility), "carpool")

----------------------------------------------------------------------------
(* C3: scenario_modal_substitution against its reference.  A flight key     *)
(* with positive value v and rate r (0.6 short, 0.4 medium, 0.15 long)      *)
(* becomes v - v*r and adds 0.1*v*r to train_tgv; a car key with positive   *)
(* value v becomes v - 0.3*v and adds 0.3*v to carpool; train_tgv and       *)
(* carpool start at 0 when absent; every other key keeps its value.         *)
(* {flight_long: 1000, train_tgv: 0} gives 850 and 15, total 865, 13.5 %.   *)

C3_RailAdded(b) ==
    Mul(Part(b, "flight_short", 600, 1000), 1, 10)
    + Mul(Part(b, "flight_medium", 400, 1000), 1, 10)
    + Mul(Part(b, "flight_long", 150, 1000), 1, 10)

C3_CarpoolAdded(b) == Part(b, "car_diesel", 3, 10) + Part(b, "car_essence", 3, 10)

C3_Reference(b, k) ==
    CASE k = "flight_short" -> Amount(b, k) - Part(b, k, 600, 1000)
      [] k = "flight_medium" -> Amount(b, k) - Part(b, k, 400, 1000)
      [] k = "flight_long" -> Amount(b, k) - Part(b, k, 150, 1000)
      [] k \in {"car_diesel", "car_essence"} -> Amount(b, k) - Part(b, k, 3, 10)
      [] k = "train_tgv" -> Amount(b, k) + C3_RailAdded(b)
      [] k = "carpool" -> Amount(b, k) + C3_CarpoolAdded(b)
      [] OTHER -> Amount(b, k)

C3_ReferenceKeys(b) ==
    DictKeys(b)
    \cup (IF AnyPositive(b, {"flight_short", "flight_medium", "flight_long"})
          THEN {"train_tgv"} ELSE {})
    \cup (IF AnyPositive(b, {"car_diesel", "car_essence"}) THEN {"carpool"} ELSE {})

\* the fractions of the reference are whole numbers of units
C3_ReferenceExact(b) ==
    /\ Exact(Amount(b, "flight_short"), 600, 1000)
    /\ Exact(Amount(b, "flight_medium"), 400, 1000)
    /\ Exact(Amount(b, "flight_long"), 150, 1000)
    /\ Exact(Part(b, "flight_short", 600, 1000), 1, 10)
    /\ Exact(Part(b, "flight_medium", 400, 1000), 1, 10)
    /\ Exact(Part(b, "flight_long", 150, 1000), 1, 10)
    /\ Exact(Amount(b, "car_diesel"), 3, 10)
    /\ Exact(Amount(b, "car_essence"), 3, 10)

C3_Example == << <<"flight_long", 1000 * Kg>>, <<"train_tgv", 0>> >>

C3_ModalMatchesReference ==
    scenario_modal # None =>
        LET m == Result(scenario_modal)
        IN  /\ C3_ReferenceExact(original)
            /\ DictKeys(m) = C3_ReferenceKeys(original)
            /\ \A k \in DictKeys(m) : Item(m, k) = C3_Reference(original, k)
            /\ original = C3_Example =>
                  /\ m = << <<"flight_long", 850 * Kg>>, <<"train_tgv", 15 * Kg>> >>
                  /\ SumValues(m) = 865 * Kg
                  \* (1000 - 865) / 1000 * 100 = 13.5
                  /\ ((SumValues(original) - SumValues(m)) \div Kg) * 100 * 10
                         = 135 * (SumValues(original) \div Kg)

\* two positive flights accumulate into an existing positive train_tgv
C3_Witness ==
    /\ scenario_modal # None
    /\ Amount(original, "flight_short") > 0
    /\ Amount(original, "flight_long") > 0
    /\ Amount(original, "train_tgv") > 0
    /\ Amount(Result(scenario_modal), "train_tgv") > Amount(original, "train_tgv")

----------------------------------------------------------------------------
(* C4: for a non-negative baseline the values returned by                   *)
(* scenario_modal_substitution sum to at most the sum of the baseline: what *)
(* is removed from the flight and car keys is at least what is added to     *)
(* train_tgv and carpool.                                                   *)

SourceKeys == {"flight_short", "flight_medium", "flight_long", "car_diesel", "car_essence"}

DestinationKeys == {"train_tgv", "carpool"}

RECURSIVE SumOver(_, _)
\* the sum of the amounts of the keys S in dict d
SumOver(d, S) ==
    IF S = {} THEN 0
    ELSE LET k == CHOOSE x \in S : TRUE
         IN  Amount(d, k) + SumOver(d, S \ {k})

----------------------------------------------------------------------------
(* C5: scenario_utility_aware takes its tier from the utility score alone:  *)
(* utility >= 8 is high (digital 0.10, mobility 0.5), 5 <= utility < 8 is   *)
(* medium (0.25, 1.0), utility < 5 is low (0.40, 1.3).  8 is high, 7 and 5  *)
(* are medium, 4 is low, negatives are low, scores above 10 are high, and   *)
(* exactly one tier applies to a score.  The tier is read off the result:   *)
(* the digital keys show the digital reduction, the car keys the factor.    *)

C5_Tiers(u) ==
    (IF u >= 8 THEN {"high"} ELSE {})
    \cup (IF 5 <= u /\ u < 8 THEN {"medium"} ELSE {})
    \cup (IF u < 5 THEN {"low"} ELSE {})

\* the result shows the parameters of tier t
C5_ShowsTier(t) ==
    LET r == Result(scenario_utility)
        p == UTILITY_SCENARIO_LEVELS[t]
    IN  /\ \A k \in DIGITAL_SOBRIETY_POSTS :
              Amount(original, k) > 0 =>
                  Item(r, k) = Mul(Amount(original, k), 1000 - p.digital_reduction, 1000)
        /\ \A k \in CarKeys :
              Amount(original, k) > 0 =>
                  Item(r, k) = Amount(original, k)
                      - Mul(Amount(original, k), 3 * p.mobility_reduction_factor, 100)

C5_TierFromUtility ==
    scenario_utility # None =>
        /\ Cardinality(C5_Tiers(utility)) = 1
        /\ \A t \in C5_Tiers(utility) : C5_ShowsTier(t)
        /\ utility \in {8, 11} => C5_ShowsTier("high")
        /\ utility \in {5, 7} => C5_ShowsTier("medium")
        /\ utility \in {4, -1} => C5_ShowsTier("low")

\* a boundary score was used on a baseline that shows both parameters
C5_Witness ==
    /\ scenario_utility # None
    /\ utility = 8
    /\ Amount(original, "cloud") > 0
    /\ Amount(original, "car_diesel") > 0

----------------------------------------------------------------------------
(* C6: in scenario_utility_aware a flight key with maximum rate r is        *)
(* reduced at min(r * mobility_factor, r): 0.5*r in the high tier, r in the *)
(* medium and in the low tier, never more than r.  So the flight keys and   *)
(* the flight contribution to train_tgv are the same for every utility < 8, *)
(* and are those of scenario_modal_substitution.                            *)

C6_Flights == <<"flight_short", "flight_medium", "flight_long">>

\* r in thousandths
C6_MaxRate(k) ==
    CASE k = "flight_short" -> 600 [] k = "flight_medium" -> 400 [] k = "flight_long" -> 150

\* the rate in 1/10000 the tier of utility u applies to flight k
C6_Rate(k, u) == IF u >= 8 THEN 5 * C6_MaxRate(k) ELSE 10 * C6_MaxRate(k)

C6_Reduced(k, u) == Part(original, k, C6_Rate(k, u), 10000)

C6_FlightRateCapped ==
    scenario_utility # None =>
        LET r == Result(scenario_utility)
        IN  /\ \A i \in DOMAIN C6_Flights :
                  LET k == C6_Flights[i]
                  IN  /\ Amount(r, k) = Amount(original, k) - C6_Reduced(k, utility)
                      /\ Amount(original, k) - Amount(r, k)
                             <= Mul(Amount(original, k), C6_MaxRate(k), 1000)
            /\ Amount(r, "train_tgv") =
                   Amount(original, "train_tgv")
                   + Mul(C6_Reduced("flight_short", utility), 1, 10)
                   + Mul(C6_Reduced("flight_medium", utility), 1, 10)
                   + Mul(C6_Reduced("flight_long", utility), 1, 10)
            /\ (utility < 8 /\ scenario_modal # None) =>
                   \A k \in FlightKeys \cup {"train_tgv"} :
                       Amount(r, k) = Amount(Result(scenario_modal), k)

\* the low tier reduced a flight by exactly its maximum rate
C6_Witness ==
    /\ scenario_utility # None /\ scenario_modal # None
    /\ utility < 5
    /\ Amount(original, "flight_short") > 0
    /\ Amount(Result(scenario_utility), "flight_short")
           = Amount(original, "flight_short")
               - Mul(Amount(original, "flight_short"), 6, 10)

----------------------------------------------------------------------------
(* C7: in scenario_utility_aware a car key with positive value v loses      *)
(* v * 0.3 * mobility_factor, without a cap: 0.15*v in the high tier, 0.3*v *)
(* in the medium tier, 0.39*v in the low tier.  All of it goes to carpool,  *)
(* so car_diesel + car_essence + carpool is the same in the result as in    *)
(* the baseline.                                                            *)

\* the car rate of the tier of utility u, in hundredths
C7_CarRate(u) == IF u >= 8 THEN 15 ELSE IF u >= 5 THEN 30 ELSE 39

C7_CarGroup == {"car_diesel", "car_essence", "carpool"}

----------------------------------------------------------------------------
(* C8: scenario_digital_sobriety multiplies each of cloud, video_conf,      *)
(* email, llm_usage that is positive in the baseline by (1 - 0.3) and       *)
(* leaves every other key as it is, the structural digital keys server,     *)
(* ai_training, laptops, desktop, screen included; no key is added, none    *)
(* removed.  {cloud: 100, server: 200} gives cloud 70, server 200, total    *)
(* 270, reduction 10.0 %.                                                   *)

C8_Adjustable == {"cloud", "video_conf", "email", "llm_usage"}

C8_Example == << <<"cloud", 100 * Kg>>, <<"server", 200 * Kg>> >>

C8_DigitalSobrietyFrame ==
    scenario_digital # None =>
        LET r == Result(scenario_digital)
        IN  /\ Len(r) = Len(original)
            /\ \A i \in DOMAIN original :
                  LET k == original[i][1]
                      v == original[i][2]
                  IN  /\ r[i][1] = k
                      /\ (k \in C8_Adjustable /\ v > 0) =>
                             /\ Exact(v, 7, 10)
                             /\ r[i][2] = Mul(v, 7, 10)
                      /\ (k \notin C8_Adjustable \/ v <= 0) => r[i][2] = v
            /\ original = C8_Example =>
                  /\ r = << <<"cloud", 70 * Kg>>, <<"server", 200 * Kg>> >>
                  /\ SumValues(r) = 270 * Kg
                  \* (300 - 270) / 300 * 100 = 10.0
                  /\ ((SumValues(original) - SumValues(r)) \div Kg) * 100
                         = 10 * (SumValues(original) \div Kg)

\* an adjustable key was cut beside a positive structural digital key
C8_Witness ==
    /\ scenario_digital # None
    /\ Amount(original, "cloud") > 0
    /\ Amount(original, "server") > 0
    /\ Amount(Result(scenario_digital), "cloud") < Amount(original, "cloud")
    /\ Amount(Result(scenario_digital), "server") = Amount(original, "server")

----------------------------------------------------------------------------
(* C9: calculate_emissions keeps an activity key only if the amount         *)
(* rounded to two decimals is strictly positive: no key of the dict it      *)
(* returns has the value 0.                                                 *)

\* original is the dict calculate_emissions returned to the handler
C9_NoZeroAmount ==
    response # "none" => \A i \in DOMAIN original : original[i][2] > 0

----------------------------------------------------------------------------
(* C10: whatever the fields of the submitted form hold (absent, empty, not  *)
(* a number, negative), the activity quantities and mission_utility alike,  *)
(* the results and the PDF export computations end without an exception and *)
(* produce their output.                                                    *)

C10_NoException ==
    response # "none" => (response = "ok" /\ rendered.page # "none")

----------------------------------------------------------------------------
(* C11: the profile of the results page is decided by the first matching    *)
(* branch, in this order: baseline_total < 100 gives low; else               *)
(* digital_sum / baseline_total > 0.6 gives digital; else                    *)
(* mobility_sum / baseline_total > 0.6 gives mobility; else both ratios      *)
(* > 0.3 gives mixed; else other.  The comparisons are strict: a ratio of    *)
(* exactly 0.6 or 0.3 does not match.  The sums run over the fixed digital   *)
(* and mobility key sets and the label is one of the five.                   *)

\* the label of the ordered classification, the ratios compared as the
\* decimal numbers they are
C11_Label(emissions, baseline_total) ==
    LET t == Cents(baseline_total)
        digital_sum == Cents(SumIn(emissions, digital_posts, 1))
        mobility_sum == Cents(SumIn(emissions, mobility_posts, 1))
    IN  IF t < 100 * 100 THEN "low"
        ELSE IF 10 * digital_sum > 6 * t THEN "digital"
        ELSE IF 10 * mobility_sum > 6 * t THEN "mobility"
        ELSE IF 10 * digital_sum > 3 * t /\ 10 * mobility_sum > 3 * t THEN "mixed"
        ELSE "other"

C11_ProfileOrderedStrict ==
    (response = "ok" /\ rendered.page = "results.html") =>
        /\ rendered.baseline_profile \in {"low", "digital", "mobility", "mixed", "other"}
        /\ rendered.baseline_profile = C11_Label(original, rendered.totals.baseline)

----------------------------------------------------------------------------
(* C12: when the baseline total is 0 the results handler divides by nothing  *)
(* and answers: the four totals are 0, the three reductions are 0, the       *)
(* dominant key is the empty string, the dominant share is 0 and the         *)
(* profile is low.                                                           *)

\* the results handler has run on a form whose baseline total is 0
C12_ZeroTotal ==
    /\ response # "none"
    /\ SumValues(original) = 0

C12_ZeroTotalIndicators ==
    (C12_ZeroTotal /\ response = "ok" /\ rendered.page = "results.html") =>
        /\ \A k \in {"baseline", "modal", "digital", "utility"} : rendered.totals[k] = 0
        /\ \A k \in Scenarios : rendered.reductions[k] = 0
        /\ rendered.dominant_post = ""
        /\ rendered.dominant_share = 0
        /\ rendered.baseline_profile = "low"

\* a results page for a total of 0 made of a key that rounds to 0
C12_Witness ==
    /\ C12_ZeroTotal
    /\ response = "ok"
    /\ rendered.page = "results.html"
    /\ original # EmptyDict

----------------------------------------------------------------------------
(* C13: when the baseline total is > 0 the dominant key is a key of the      *)
(* baseline mapping with the maximum value; among several keys with that     *)
(* maximum it is the first in the order of the Factor Table, whatever the    *)
(* request, and when exactly one key is positive the dominant share is       *)
(* 100.0.                                                                    *)

\* the keys of d that hold its largest value
C13_MaxKeys(d) ==
    {k \in DictKeys(d) : \A j \in DictKeys(d) : Amount(d, j) <= Amount(d, k)}

\* the key of S that comes first in the Factor Table
C13_FirstInTable(S) ==
    FactorOrder[CHOOSE i \in DOMAIN FactorOrder :
                    /\ FactorOrder[i] \in S
                    /\ \A j \in 1..(i - 1) : FactorOrder[j] \notin S]

C13_PositiveKeys(d) == {k \in DictKeys(d) : Amount(d, k) > 0}

\* a handler has answered for a baseline whose total is > 0
C13_Answered ==
    /\ response = "ok"
    /\ rendered.totals.baseline > 0

C13_DominantFirstMaximum ==
    C13_Answered =>
        /\ C13_MaxKeys(original) # {}
        /\ rendered.dominant_post = Humanize(C13_FirstInTable(C13_MaxKeys(original)))
        /\ Cardinality(C13_PositiveKeys(original)) = 1 =>
               rendered.dominant_share = 100 * 10

\* several keys hold the maximum
C13_Witness ==
    /\ C13_Answered
    /\ rendered.page = "results.html"
    /\ Cardinality(C13_MaxKeys(original)) > 1

----------------------------------------------------------------------------
(* C14: the result of scenario_modal_substitution does not depend on the     *)
(* order in which the source keys are processed: for every permutation of    *)
(* the flight keys and of the two car keys the returned mapping is the       *)
(* same, the contributions to train_tgv and carpool being accumulated by     *)
(* addition.                                                                 *)

RECURSIVE C14_Flights(_, _, _)
\* the flight loop run over the flight keys in the order given
C14_Flights(e, order, i) ==
    IF i > Len(order) THEN e
    ELSE C14_Flights(ModalFlightStep(e, order[i], Item(MAX_FLIGHT_SUBSTITUTION, order[i])),
                     order, i + 1)

\* the mapping returned when the loops run in the orders given
C14_Run(b, flights, cars) == ModalCarLoop(C14_Flights(b, flights, 1), cars, 1)

\* equal as Python dicts: the same keys with the same values
C14_SameMapping(d, e) ==
    /\ DictKeys(d) = DictKeys(e)
    /\ \A k \in DictKeys(d) : Item(d, k) = Item(e, k)

----------------------------------------------------------------------------
(* C15: a higher utility gives a more conservative reduction: for every      *)
(* non-negative baseline and utility scores u1 <= u2 the total of            *)
(* scenario_utility_aware(baseline, u1) is <= the total of                   *)
(* scenario_utility_aware(baseline, u2), and both are <= the baseline total. *)

\* the sum of the values scenario_utility_aware returns for baseline b and
\* utility u (the sum does not depend on the order of the set loops)
C15_TotalFor(b, u) ==
    LET posts == CHOOSE o \in SetOrders(DIGITAL_SOBRIETY_POSTS, b) : TRUE
        cars == CHOOSE o \in SetOrders(CarKeys, b) : TRUE
        r == scenario_utility_aware(FreshHeap(b), BaselineRef, u, UtilityRef, posts, cars)
    IN  SumValues(r.heap[r.ref])

----------------------------------------------------------------------------
(* C16: no scenario reduces the total by more than the global cap            *)
(* MAX_GLOBAL_REDUCTION = 20%: for every baseline with total > 0 and every   *)
(* utility, each of the modal, digital and utility-aware totals is           *)
(* >= 0.8 * baseline total.                                                  *)

\* the smallest total the cap allows for baseline b
C16_Floor(b) == SumValues(b) - Mul(SumValues(b), MAX_GLOBAL_REDUCTION, PerMille)

C16_GlobalCapRespected ==
    SumValues(original) > 0 =>
        \A ref \in {scenario_modal, scenario_digital, scenario_utility} \ {None} :
            SumValues(Result(ref)) >= C16_Floor(original)

----------------------------------------------------------------------------
(* C17: for the same form the PDF export hands the report generator the     *)
(* indicators the results page computes: the same totals, reductions,        *)
(* dominant key and share, and the same profile label, the one of the        *)
(* ordered low / digital / mobility / mixed / other classification.          *)

\* the reference of the result a key of totals stands for
C17_Ref(k) ==
    CASE k = "modal" -> scenario_modal
      [] k = "digital" -> scenario_digital
      [] k = "utility" -> scenario_utility

\* the profile labels the results page can show for the form
C17_ResultsProfiles ==
    {Profile(original, rendered.totals.baseline, above) :
        above \in SUBSET ProfileTies(original, rendered.totals.baseline)}

C17_PdfSameIndicators ==
    (response = "ok" /\ rendered.page = "SCAR_report.pdf") =>
        /\ rendered.totals.baseline = Round(SumValues(original), Cent, FALSE)
        /\ \A k \in Scenarios :
              /\ \E up \in BOOLEAN : rendered.totals[k] = Total(Result(C17_Ref(k)), up)
              /\ \E up \in BOOLEAN :
                    rendered.reductions[k] =
                        Reduction(rendered.totals.baseline, rendered.totals[k], up)
        /\ \E up \in BOOLEAN :
              /\ rendered.dominant_post =
                     Humanize(Dominant(original, rendered.totals.baseline, up).post)
              /\ rendered.dominant_share =
                     Dominant(original, rendered.totals.baseline, up).share
        /\ rendered.baseline_profile \in C17_ResultsProfiles

====
